---- MODULE Spec2Model ----
(***************************************************************************)
(* Model of services/logistics.py: the pipeline of generate_logistics_mst  *)
(* (load features, extract coordinates, complete geodesic graph, minimum   *)
(* spanning tree, road-network visualisation, result assembly).            *)
(*                                                                         *)
(* Coordinates are integers in hundredths of a degree; distances are whole *)
(* metres.  Positions of a DataFrame are 0-based as in pandas: row i of a  *)
(* frame df is df[i + 1].                                                  *)
(***************************************************************************)
EXTENDS Integers, Sequences, FiniteSets, TLC

VARIABLES
    run,        \* which call of generate_logistics_mst is executing (1 or 2)
    pc,         \* position inside generate_logistics_mst
    mode,       \* argument `mode`
    osm,        \* the features OSM holds for the bounding box (the input)
    gdf,        \* local gdf of generate_logistics_mst
    coords_df,  \* local coords_df of generate_logistics_mst
    G,          \* local G (complete geodesic graph)
    mst,        \* local mst
    viz,        \* locals of visualize_mst_map: its copy of coords_df, loop cursor, map m
    net,        \* what the road-network provider has answered so far
    outcome,    \* how the current call ended: pending, return value, or exception
    first       \* outcome and map of the first call, kept for comparison

vars == <<run, pc, mode, osm, gdf, coords_df, G, mst, viz, net, outcome, first>>

----------------------------------------------------------------------------
(* Bounds of the model *)

\* most facility records OSM returns in a pipeline run
MaxFacilities == 3
\* most points handed to build_geodesic_graph when it is checked on its own
MaxPoints == 4
\* most road segments on a route the network returns
MaxSegs == 2
\* most records handed to extract_coordinates when it is checked on its own
MaxRecords == 3

----------------------------------------------------------------------------
(* Sample data *)

\* <<lat, lon>> in hundredths of a degree: the three points of
\* test_build_geodesic_graph and the centroid of polygon1 of
\* test_extract_coordinates_with_polygons.
SiteA == <<5990, 3030>>
SiteB == <<5980, 3040>>
SiteC == <<5970, 3050>>
SiteD == <<5905, 3005>>
Sites == {SiteA, SiteB, SiteC, SiteD}

\* An attribute value: a string, or missing (None / NaN).
Val(s) == [na |-> FALSE, s |-> s]
Missing == [na |-> TRUE, s |-> ""]

\* Geometries: `parts` is a sequence of rings, a ring a sequence of vertices
\* <<x, y>> (the closing vertex left implicit).  A point has one part of one
\* vertex, a polygon one part (its exterior ring; the samples have no
\* holes), a multi-polygon one part per polygon.
PointGeom(lat, lon) == [geom_type |-> "Point", parts |-> << << <<lon, lat>> >> >>]
PolygonGeom(ring) == [geom_type |-> "Polygon", parts |-> <<ring>>]
MultiPolygonGeom(rings) == [geom_type |-> "MultiPolygon", parts |-> rings]

Rect(minx, miny, maxx, maxy) ==
    << <<minx, miny>>, <<maxx, miny>>, <<maxx, maxy>>, <<minx, maxy>> >>
RectGeom(minx, miny, maxx, maxy) == PolygonGeom(Rect(minx, miny, maxx, maxy))

\* The facility records a run may load (rows of the GeoDataFrame).
Facilities ==
    { [name |-> Val("Point1"), building |-> Val("warehouse"),
       geometry |-> PointGeom(5990, 3030)],
      [name |-> Val("Point2"), building |-> Missing,
       geometry |-> PointGeom(5980, 3040)],
      [name |-> Val("Poly1"), building |-> Val("warehouse"),
       geometry |-> RectGeom(3000, 5900, 3010, 5910)] }

\* float('nan') as a coordinate: an integer no degree value takes.
NaN == 0 - 99999

\* A MultiPolygon of a single rectangular part.
MultiRectGeom(minx, miny, maxx, maxy) ==
    MultiPolygonGeom(<<Rect(minx, miny, maxx, maxy)>>)

\* The records extract_coordinates is checked on: the facilities above,
\* polygon2 of test_extract_coordinates_with_polygons as a MultiPolygon, a
\* triangle, a MultiPolygon of two rectangles of different area, and a
\* point whose latitude is NaN.
ExtractSamples ==
    Facilities \cup
    { [name |-> Val("Poly2"), building |-> Val("depot"),
       geometry |-> MultiRectGeom(3020, 5920, 3030, 5930)],
      [name |-> Val("Tri1"), building |-> Val("industrial"),
       geometry |-> PolygonGeom(<< <<3040, 5940>>, <<3046, 5940>>, <<3040, 5946>> >>)],
      [name |-> Val("Multi2"), building |-> Val("depot"),
       geometry |-> MultiPolygonGeom(<<Rect(3020, 5920, 3030, 5930),
                                       Rect(3050, 5920, 3054, 5930)>>)],
      [name |-> Missing, building |-> Val("depot"),
       geometry |-> PointGeom(NaN, 3030)] }

\* The nodes of the road network points are snapped to.
NetNodes == {"n1", "n2"}
NoNode == "unsnapped"

\* Lengths in metres of the road segments of the sample network.
SegLens == {7000}

\* Mode strings are sequences of characters.
ModeAuto == <<"a", "u", "t", "o">>
ModeAero == <<"a", "e", "r", "o">>
ModeSea == <<"s", "e", "a">>
ModeRail == <<"r", "a", "i", "l">>
ModeUnknown == <<"u", "n", "k", "n", "o", "w", "n">>

\* The values of the argument `mode` a run is called with.
Modes == {ModeAuto, ModeUnknown}

SeqsUpTo(S, n) == UNION {[1..k -> S] : k \in 0..n}

RECURSIVE SumSeq(_)
SumSeq(s) == IF s = <<>> THEN 0 ELSE Head(s) + SumSeq(Tail(s))

----------------------------------------------------------------------------
(* haversine, lines 17-23 *)

\* The value of haversine() rounded to whole metres, tabulated on Sites
\* (2 * 6371000 * atan2(sqrt(a), sqrt(1 - a)) is not computable in integer
\* arithmetic).  The table is keyed by the unordered pair: the code's value
\* is exactly symmetric, as a depends on the arguments only through
\* sin(dphi/2)^2, sin(dlambda/2)^2 and cos(phi1) * cos(phi2).
HaversineTable ==
    [p \in {{SiteA, SiteB}, {SiteA, SiteC}, {SiteA, SiteD},
            {SiteB, SiteC}, {SiteB, SiteD}, {SiteC, SiteD}} |->
        CASE p = {SiteA, SiteB} -> 12443
          [] p = {SiteA, SiteC} -> 24894
          [] p = {SiteA, SiteD} -> 95564
          [] p = {SiteB, SiteC} -> 12451
          [] p = {SiteB, SiteD} -> 85713
          [] p = {SiteC, SiteD} -> 76639]

haversine(lat1, lon1, lat2, lon2) ==
    IF <<lat1, lon1>> = <<lat2, lon2>> THEN 0
    ELSE HaversineTable[{<<lat1, lon1>>, <<lat2, lon2>>}]

----------------------------------------------------------------------------
(* get_default_tags, lines 26-38 *)

\* How a call ends: still running, a return value, or an exception.
Pending == [kind |-> "pending"]
Raised(exc) == [kind |-> "raise", exc |-> exc]
Returned(value) == [kind |-> "return", value |-> value]

\* The characters of a mode string are ASCII.  str.lower maps each of the
\* 26 capitals to its letter and leaves every other ASCII character as it
\* is.
Letters == <<"a", "b", "c", "d", "e", "f", "g", "h", "i", "j", "k", "l", "m",
             "n", "o", "p", "q", "r", "s", "t", "u", "v", "w", "x", "y", "z">>
Capitals == <<"A", "B", "C", "D", "E", "F", "G", "H", "I", "J", "K", "L", "M",
              "N", "O", "P", "Q", "R", "S", "T", "U", "V", "W", "X", "Y", "Z">>

LowerChar(c) ==
    IF \E i \in 1..Len(Capitals) : Capitals[i] = c
    THEN Letters[CHOOSE i \in 1..Len(Capitals) : Capitals[i] = c]
    ELSE c

\* get_default_tags without `mode = mode.lower()`.
NoLower(s) == s

\* line 28: mode.lower()
Lower(s) == [i \in 1..Len(s) |-> LowerChar(s[i])]

get_default_tags(m) ==
    LET lowered == Lower(m)
    IN  IF lowered = ModeAuto
        THEN Returned([building |-> <<"warehouse", "depot", "industrial">>])
        ELSE IF lowered = ModeAero
        THEN Returned([aeroway |-> <<"terminal", "hangar", "cargo">>])
        ELSE IF lowered = ModeSea
        THEN Returned([harbour |-> TRUE, man_made |-> <<"pier", "dock">>])
        ELSE IF lowered = ModeRail
        THEN Returned([railway |-> <<"station", "yard", "cargo_terminal">>])
        ELSE Raised("ValueError")

\* TRUE when get_default_tags returns a tag filter, FALSE when it raises
\* ValueError.
KnownMode(m) == get_default_tags(m).kind = "return"

----------------------------------------------------------------------------
(* networkx Graph: nodes in insertion order, edges in insertion order *)

EmptyGraph == [nodes |-> <<>>, edges |-> <<>>]

\* G.adj[n]: the neighbours of n in the order their edges were inserted.
Adj(g, n) ==
    LET inc == SelectSeq(g.edges, LAMBDA e : e.u = n \/ e.v = n)
    IN  [i \in 1..Len(inc) |->
            [nbr |-> IF inc[i].u = n THEN inc[i].v ELSE inc[i].u,
             weight |-> inc[i].weight]]

\* G.edges(data=True): for each node in node order, each neighbour not yet
\* fully visited, reported as (node, neighbour, data).
RECURSIVE EdgesFrom(_, _)
EdgesFrom(g, p) ==
    IF p > Len(g.nodes) THEN <<>>
    ELSE LET n == g.nodes[p]
             seen == {g.nodes[q] : q \in 1..(p - 1)}
             out == SelectSeq(Adj(g, n), LAMBDA x : x.nbr \notin seen)
         IN  [i \in 1..Len(out) |->
                 [u |-> n, v |-> out[i].nbr, weight |-> out[i].weight]]
             \o EdgesFrom(g, p + 1)

EdgesView(g) == EdgesFrom(g, 1)

\* G.add_edges_from: an edge already present (in either orientation) only
\* has its data updated; a new one is appended.
RECURSIVE AddEdgesFrom(_, _)
AddEdgesFrom(g, es) ==
    IF es = <<>> THEN g
    ELSE LET e == Head(es)
             same(x) == {x.u, x.v} = {e.u, e.v}
             present == \E i \in 1..Len(g.edges) : same(g.edges[i])
             edges2 == IF present
                       THEN [i \in 1..Len(g.edges) |->
                               IF same(g.edges[i])
                               THEN [g.edges[i] EXCEPT !.weight = e.weight]
                               ELSE g.edges[i]]
                       ELSE Append(g.edges, e)
         IN  AddEdgesFrom([g EXCEPT !.edges = edges2], Tail(es))

----------------------------------------------------------------------------
(* build_geodesic_graph, lines 83-95 *)

Row(df, i) == df[i + 1]

\* The loops with the filter written `if i <= j`: every point is also paired
\* with itself.
IndexPairsWithLoops(n) ==
    SelectSeq([k \in 1..(n * n) |-> <<(k - 1) \div n, (k - 1) % n>>],
              LAMBDA p : p[1] <= p[2])

\* The pairs (i, j) visited by the two nested iterrows loops, in order,
\* filtered by `if i < j`.
IndexPairs(n) ==
    SelectSeq([k \in 1..(n * n) |-> <<(k - 1) \div n, (k - 1) % n>>],
              LAMBDA p : p[1] < p[2])

build_geodesic_graph(df) ==
    LET n == Len(df)
        ps == IndexPairs(n)
        edges == [k \in 1..Len(ps) |->
                    LET i == ps[k][1]
                        j == ps[k][2]
                    IN  [u |-> i, v |-> j,
                         weight |-> haversine(Row(df, i).lat, Row(df, i).lon,
                                              Row(df, j).lat, Row(df, j).lon)]]
        nodes == [k \in 1..n |-> k - 1]
    IN  AddEdgesFrom([nodes |-> nodes, edges |-> <<>>], edges)

----------------------------------------------------------------------------
(* build_mst_graph, lines 98-100: nx.minimum_spanning_tree, whose default  *)
(* algorithm is Kruskal's                                                  *)

\* A sort that is not stable: an edge is placed before the edges of equal
\* weight that G.edges() reports ahead of it.
InsertBeforeEqual(e, s) ==
    LET k == Cardinality({i \in 1..Len(s) : s[i].weight < e.weight})
    IN  SubSeq(s, 1, k) \o <<e>> \o SubSeq(s, k + 1, Len(s))

\* sorted(edges, key=weight): stable, so edges of equal weight keep the
\* order G.edges() reports them in.
InsertStable(e, s) ==
    LET k == Cardinality({i \in 1..Len(s) : s[i].weight <= e.weight})
    IN  SubSeq(s, 1, k) \o <<e>> \o SubSeq(s, k + 1, Len(s))

\* The edges left in the order G.edges() reports them, not sorted.
Unsorted(s) == s

RECURSIVE SortedByWeight(_)
SortedByWeight(s) ==
    IF s = <<>> THEN <<>>
    ELSE InsertStable(s[Len(s)], SortedByWeight(SubSeq(s, 1, Len(s) - 1)))

\* The union-find scan: comp maps each node to its subtree's representative;
\* an edge joining two subtrees is yielded and the subtrees are united.
RECURSIVE KruskalScan(_, _, _)
KruskalScan(es, comp, acc) ==
    IF es = <<>> THEN acc
    ELSE LET e == Head(es)
         IN  IF comp[e.u] # comp[e.v]
             THEN KruskalScan(Tail(es),
                              [n \in DOMAIN comp |->
                                  IF comp[n] = comp[e.v] THEN comp[e.u] ELSE comp[n]],
                              Append(acc, e))
             ELSE KruskalScan(Tail(es), comp, acc)

NodeSet(g) == {g.nodes[i] : i \in 1..Len(g.nodes)}

\* The n - 1 lightest edges, taken without the union-find test.
LightestEdges(g) ==
    LET es == SortedByWeight(EdgesView(g))
        k == IF Len(g.nodes) = 0 THEN 0 ELSE Len(g.nodes) - 1
    IN  SubSeq(es, 1, IF k < Len(es) THEN k ELSE Len(es))

kruskal_mst_edges(g) ==
    KruskalScan(SortedByWeight(EdgesView(g)), [n \in NodeSet(g) |-> n], <<>>)

build_mst_graph(g) ==
    AddEdgesFrom([nodes |-> g.nodes, edges |-> <<>>], kruskal_mst_edges(g))

----------------------------------------------------------------------------
(* extract_coordinates, lines 66-80 *)

\* The sums of the area-centroid formula over one ring, with coordinates
\* taken relative to the vertex o: twice the area, and the first moments
\* (three times the area times twice the centroid offset), made positive
\* whatever the orientation of the ring.
RingSums(ring, o) ==
    LET n == Len(ring)
        x(i) == ring[i][1] - o[1]
        y(i) == ring[i][2] - o[2]
        nxt(i) == IF i = n THEN 1 ELSE i + 1
        cross(i) == x(i) * y(nxt(i)) - x(nxt(i)) * y(i)
        a2 == SumSeq([i \in 1..n |-> cross(i)])
        sx == SumSeq([i \in 1..n |-> (x(i) + x(nxt(i))) * cross(i)])
        sy == SumSeq([i \in 1..n |-> (y(i) + y(nxt(i))) * cross(i)])
    IN  IF a2 < 0
        THEN [a2 |-> 0 - a2, sx |-> 0 - sx, sy |-> 0 - sy]
        ELSE [a2 |-> a2, sx |-> sx, sy |-> sy]

\* geom.centroid of a polygon or multi-polygon of positive area: the
\* area-weighted centroid of its parts, rounded to the nearest hundredth of
\* a degree.
Centroid(parts) ==
    LET o == parts[1][1]
        sums == [k \in 1..Len(parts) |-> RingSums(parts[k], o)]
        a2 == SumSeq([k \in 1..Len(parts) |-> sums[k].a2])
        sx == SumSeq([k \in 1..Len(parts) |-> sums[k].sx])
        sy == SumSeq([k \in 1..Len(parts) |-> sums[k].sy])
        Round(p, q) == (2 * p + q) \div (2 * q)
    IN  <<o[1] + Round(sx, 3 * a2), o[2] + Round(sy, 3 * a2)>>

\* `y, x = geom.x, geom.y`: the coordinates taken in the wrong order.
ExtractRowSwapped(row) ==
    LET geom == row.geometry
        xy == IF geom.geom_type \in {"Polygon", "MultiPolygon"}
              THEN Centroid(geom.parts)
              ELSE geom.parts[1][1]
    IN  [lat |-> xy[1], lon |-> xy[2], tags |-> row]

ExtractRow(row) ==
    LET geom == row.geometry
        xy == IF geom.geom_type \in {"Polygon", "MultiPolygon"}
              THEN Centroid(geom.parts)
              ELSE geom.parts[1][1]
    IN  [lat |-> xy[2], lon |-> xy[1], tags |-> row]

extract_coordinates(frame) == [i \in 1..Len(frame) |-> ExtractRow(frame[i])]

----------------------------------------------------------------------------
(* The road-network provider (osmnx), as the pipeline sees it *)

Unasked == [status |-> "unasked", segs |-> <<>>, measure |-> "ok"]

\* What ox.routing.shortest_path followed by ox.routing.route_to_gdf can do
\* for a query (a, b): raise, return None (no path), or return a route of
\* Len(segs) + 1 nodes whose measuring succeeds or raises.  A query from a
\* node to itself returns the one-node route.
Answers(a, b) ==
    IF a = b
    THEN {[status |-> "path", segs |-> <<>>, measure |-> "ok"]}
    ELSE {[status |-> "raise", segs |-> <<>>, measure |-> "ok"],
          [status |-> "none", segs |-> <<>>, measure |-> "ok"]}
         \cup {[status |-> "path", segs |-> s, measure |-> mm] :
                  s \in SeqsUpTo(SegLens, MaxSegs) \ {<<>>}, mm \in {"ok", "raise"}}

NoNet ==
    [features |-> "unknown", load |-> "unknown", snap |-> "unknown",
     nodes |-> [c \in Sites |-> NoNode],
     route |-> [q \in NetNodes \X NetNodes |-> Unasked]]

\* The provider answers a repeated question as it answered it before.
Outcomes(known) == IF known = "unknown" THEN {"ok", "raise"} ELSE {known}

----------------------------------------------------------------------------
(* State of one call *)

NoViz == [coords |-> <<>>, k |-> 0, m |-> <<>>]

OsmInputs == SeqsUpTo(Facilities, MaxFacilities)

Init ==
    /\ run = 1
    /\ pc = "start"
    /\ mode \in Modes
    /\ osm \in OsmInputs
    /\ gdf = <<>>
    /\ coords_df = <<>>
    /\ G = EmptyGraph
    /\ mst = EmptyGraph
    /\ viz = NoViz
    /\ net = NoNet
    /\ outcome = Pending
    /\ first = [outcome |-> Pending, m |-> <<>>]

----------------------------------------------------------------------------
(* generate_logistics_mst, lines 241-303 *)

\* lines 252-254: load_logistics_features, then the early return on an
\* empty frame.  get_default_tags raises on an unknown mode (line 50);
\* ox.features.features_from_bbox and gdf.to_file (lines 59-60) may raise,
\* and nothing handles either exception.
Load ==
    /\ pc = "start"
    /\ IF ~KnownMode(mode)
       THEN /\ outcome' = Raised("ValueError")
            /\ pc' = "done"
            /\ UNCHANGED <<gdf, net>>
       ELSE \E r \in Outcomes(net.features) :
               /\ net' = [net EXCEPT !.features = r]
               /\ IF r = "raise"
                  THEN /\ outcome' = Raised("Exception")
                       /\ pc' = "done"
                       /\ gdf' = gdf
                  ELSE /\ gdf' = osm
                       /\ IF Len(osm) = 0
                          THEN /\ outcome' = Returned([status |-> "no_data",
                                                       message |-> "no logistics objects in the area"])
                               /\ pc' = "done"
                          ELSE /\ outcome' = outcome
                               /\ pc' = "loaded"
    /\ UNCHANGED <<run, mode, osm, coords_df, G, mst, viz, first>>

\* line 256
Extract ==
    /\ pc = "loaded"
    /\ coords_df' = extract_coordinates(gdf)
    /\ pc' = "extracted"
    /\ UNCHANGED <<run, mode, osm, gdf, G, mst, viz, net, outcome, first>>

\* line 257
BuildGraph ==
    /\ pc = "extracted"
    /\ G' = build_geodesic_graph(coords_df)
    /\ pc' = "graph"
    /\ UNCHANGED <<run, mode, osm, gdf, coords_df, mst, viz, net, outcome, first>>

\* build_mst_graph called before build_geodesic_graph, on a G not yet built.
BuildMstEarly ==
    /\ pc = "extracted"
    /\ mst' = build_mst_graph(G)
    /\ pc' = "mst"
    /\ UNCHANGED <<run, mode, osm, gdf, coords_df, G, viz, net, outcome, first>>

\* line 258
BuildMst ==
    /\ pc = "graph"
    /\ mst' = build_mst_graph(G)
    /\ pc' = "mst"
    /\ UNCHANGED <<run, mode, osm, gdf, coords_df, G, viz, net, outcome, first>>

----------------------------------------------------------------------------
(* visualize_mst_map, lines 103-232 *)

\* Things added to the folium map m, in the order of the add_to calls.  A
\* label carries, in metres, the distance its text is formatted from, and
\* sits at the midpoint of its two points, kept here as the sum of their
\* coordinates (twice the midpoint) to stay in integers.  The sample
\* coordinates are all finite, so the pd.isna guard of line 114 skips no
\* point marker.
\* The default of tags.get("building", ...): an em dash (U+2014), written
\* here in ASCII.
Dash == Val("--")

\* lines 116-126: tags.get("name") is None when the key is absent, and the
\* name line is added only for a name that is non-empty and not NaN.
CircleMarker(row) ==
    LET name == IF "name" \in DOMAIN row.tags THEN row.tags.name ELSE Missing
        btype == IF "building" \in DOMAIN row.tags THEN row.tags.building ELSE Dash
    IN  [kind |-> "CircleMarker", color |-> "red", at |-> <<row.lat, row.lon>>,
         popup |-> <<btype>> \o (IF ~name.na /\ name.s # "" THEN <<name>> ELSE <<>>),
         dist |-> 0]

\* lines 113-126: one marker per row, rows with a NaN latitude or longitude
\* skipped.
PointMarkers(df) ==
    LET located == SelectSeq(df, LAMBDA row : row.lat # NaN /\ row.lon # NaN)
    IN  [i \in 1..Len(located) |-> CircleMarker(located[i])]
PolyLine(color, row_u, row_v) ==
    [kind |-> "PolyLine", color |-> color,
     at |-> <<row_u.lat, row_u.lon, row_v.lat, row_v.lon>>,
     popup |-> <<>>, dist |-> 0]
Marker(color, row_u, row_v, dist) ==
    [kind |-> "Marker", color |-> color,
     at |-> <<row_u.lat + row_v.lat, row_u.lon + row_v.lon>>,
     popup |-> <<>>, dist |-> dist]

\* lines 109-131: the point markers, then ox.graph_from_bbox, which may raise.
VizOpen ==
    /\ pc = "mst"
    /\ \E r \in Outcomes(net.load) :
          /\ net' = [net EXCEPT !.load = r]
          /\ viz' = [coords |-> <<>>, k |-> 0,
                     m |-> PointMarkers(coords_df)]
          /\ IF r = "raise"
             THEN outcome' = Raised("Exception") /\ pc' = "done"
             ELSE outcome' = outcome /\ pc' = "viz_net"
    /\ UNCHANGED <<run, mode, osm, gdf, coords_df, G, mst, first>>

\* lines 134-139: `coords_df = coords_df.copy()` rebinds the parameter to a
\* private copy, and the column osm_node is assigned on that copy; f maps
\* each coordinate to the node nearest_nodes returned for it.
SnapNoCopy(df, f) ==
    LET snapped == [i \in 1..Len(df) |->
                      [lat |-> df[i].lat, lon |-> df[i].lon, tags |-> df[i].tags,
                       osm_node |-> f[<<df[i].lat, df[i].lon>>]]]
    IN  [local |-> snapped, caller |-> snapped]

SnapInto(df, f) ==
    [local |-> [i \in 1..Len(df) |->
                  [lat |-> df[i].lat, lon |-> df[i].lon, tags |-> df[i].tags,
                   osm_node |-> f[<<df[i].lat, df[i].lon>>]]],
     caller |-> df]

\* ox.distance.nearest_nodes may raise; equal coordinates snap to the same
\* node.
VizSnap ==
    /\ pc = "viz_net"
    /\ \E r \in Outcomes(net.snap) :
          IF r = "raise"
          THEN /\ net' = [net EXCEPT !.snap = r]
               /\ outcome' = Raised("Exception")
               /\ pc' = "done"
               /\ UNCHANGED <<viz, coords_df>>
          ELSE LET present == {<<coords_df[i].lat, coords_df[i].lon>> :
                                   i \in 1..Len(coords_df)}
               IN  \E f \in [present -> NetNodes] :
                      /\ \A c \in present :
                            net.nodes[c] # NoNode => f[c] = net.nodes[c]
                      /\ net' = [net EXCEPT
                                   !.snap = r,
                                   !.nodes = [c \in Sites |->
                                                IF c \in present THEN f[c] ELSE @[c]]]
                      /\ viz' = [viz EXCEPT !.coords = SnapInto(coords_df, f).local]
                      /\ coords_df' = SnapInto(coords_df, f).caller
                      /\ outcome' = outcome
                      /\ pc' = "viz_loop"
    /\ UNCHANGED <<run, mode, osm, gdf, G, mst, first>>

\* `if route:` alone, without `and len(route) > 1`.
HasAnyRoute(a) == a.status = "path"

\* line 152: `if route and len(route) > 1`; route is None after an exception
\* or when there is no path, and a route of Len(segs) segments has
\* Len(segs) + 1 nodes.
HasRoute(a) == a.status = "path" /\ Len(a.segs) + 1 > 1

\* lines 143-228: one iteration of the loop over mst.edges(data=True).
VizEdge ==
    /\ pc = "viz_loop"
    /\ viz.k < Len(EdgesView(mst))
    /\ LET e == EdgesView(mst)[viz.k + 1]
           row_u == Row(viz.coords, e.u)
           row_v == Row(viz.coords, e.v)
           q == <<row_u.osm_node, row_v.osm_node>>
       IN  \E a \in (IF net.route[q] = Unasked THEN Answers(q[1], q[2])
                     ELSE {net.route[q]}) :
              /\ net' = [net EXCEPT !.route[q] = a]
              /\ IF HasRoute(a)
                 THEN IF a.measure = "raise"
                      THEN /\ outcome' = Raised("Exception")
                           /\ pc' = "done"
                           /\ viz' = viz
                      ELSE /\ viz' = [viz EXCEPT
                                        !.k = @ + 1,
                                        !.m = @ \o <<PolyLine("blue", row_u, row_v),
                                                     Marker("white", row_u, row_v, SumSeq(a.segs)),
                                                     Marker("white", row_u, row_v, SumSeq(a.segs))>>]
                           /\ UNCHANGED <<outcome, pc>>
                 ELSE /\ viz' = [viz EXCEPT
                                   !.k = @ + 1,
                                   !.m = @ \o <<PolyLine("gray", row_u, row_v),
                                                Marker("gray", row_u, row_v,
                                                       haversine(row_u.lat, row_u.lon,
                                                                 row_v.lat, row_v.lon))>>]
                      /\ UNCHANGED <<outcome, pc>>
    /\ UNCHANGED <<run, mode, osm, gdf, coords_df, G, mst, first>>

\* lines 230-232: m.save(output_file); return output_file
VizSave ==
    /\ pc = "viz_loop"
    /\ viz.k = Len(EdgesView(mst))
    /\ pc' = "viz_done"
    /\ UNCHANGED <<run, mode, osm, gdf, coords_df, G, mst, viz, net, outcome, first>>

----------------------------------------------------------------------------
(* generate_logistics_mst, lines 261-303: the result *)

\* lines 264-273: geometry is dropped, a missing value becomes None, any
\* other value its str().
CleanTags(tags) ==
    [k \in DOMAIN tags \ {"geometry"} |->
        IF tags[k].na THEN Missing ELSE Val(tags[k].s)]

ResultPoints(df) ==
    [i \in 1..Len(df) |->
        [lat |-> df[i].lat, lon |-> df[i].lon, tags |-> CleanTags(df[i].tags)]]

\* The edge entries written with the endpoints the other way round:
\* "from_index": v, "to_index": u.
ResultEdgesSwapped(t) ==
    LET es == EdgesView(t)
    IN  [i \in 1..Len(es) |->
            [from_index |-> es[i].v, to_index |-> es[i].u, distance |-> es[i].weight]]

\* lines 281-290: one entry per (u, v, data) of mst.edges(data=True).
ResultEdges(t) ==
    LET es == EdgesView(t)
    IN  [i \in 1..Len(es) |->
            [from_index |-> es[i].u, to_index |-> es[i].v, distance |-> es[i].weight]]

\* `total_distance = d` in place of `total_distance += d`.
LastDistance(es) == IF es = <<>> THEN 0 ELSE es[Len(es)].weight

\* lines 282-285: total_distance accumulates the weights in loop order.
RECURSIVE TotalDistance(_)
TotalDistance(es) ==
    IF es = <<>> THEN 0
    ELSE TotalDistance(SubSeq(es, 1, Len(es) - 1)) + es[Len(es)].weight

\* lines 292-303; bbox, handed through unchanged, is left out.
Result(df, t, m) ==
    [nodes_count |-> Len(ResultPoints(df)),
     edges_count |-> Len(ResultEdges(t)),
     total_distance |-> TotalDistance(EdgesView(t)),
     points |-> ResultPoints(df),
     edges |-> ResultEdges(t),
     map_path |-> <<"logistics_", m, "_mst.html">>,
     mode |-> m,
     status |-> "ok"]

Assemble ==
    /\ pc = "viz_done"
    /\ outcome' = Returned(Result(coords_df, mst, mode))
    /\ pc' = "done"
    /\ UNCHANGED <<run, mode, osm, gdf, coords_df, G, mst, viz, net, first>>

\* The caller invokes generate_logistics_mst a second time with the same
\* arguments, OSM features and road network.
Rerun ==
    /\ pc = "done"
    /\ run = 1
    /\ run' = 2
    /\ first' = [outcome |-> outcome, m |-> viz.m]
    /\ pc' = "start"
    /\ gdf' = <<>>
    /\ coords_df' = <<>>
    /\ G' = EmptyGraph
    /\ mst' = EmptyGraph
    /\ viz' = NoViz
    /\ outcome' = Pending
    /\ UNCHANGED <<mode, osm, net>>

Next ==
    \/ Load
    \/ Extract
    \/ BuildGraph
    \/ BuildMst
    \/ VizOpen
    \/ VizSnap
    \/ VizEdge
    \/ VizSave
    \/ Assemble
    \/ Rerun

Spec == Init /\ [][Next]_vars

----------------------------------------------------------------------------
(* build_geodesic_graph and build_mst_graph on their own *)

PointFrames ==
    {[i \in 1..Len(s) |-> [lat |-> s[i][1], lon |-> s[i][2],
                           tags |-> [name |-> Missing]]] :
        s \in SeqsUpTo(Sites, MaxPoints)}

InitGraph ==
    /\ run = 1
    /\ pc = "extracted"
    /\ mode = ModeAuto
    /\ osm = <<>>
    /\ gdf = <<>>
    /\ coords_df \in PointFrames
    /\ G = EmptyGraph
    /\ mst = EmptyGraph
    /\ viz = NoViz
    /\ net = NoNet
    /\ outcome = Pending
    /\ first = [outcome |-> Pending, m |-> <<>>]

NextGraph ==
    \/ BuildGraph
    \/ BuildMst

SpecGraph == InitGraph /\ [][NextGraph]_vars

----------------------------------------------------------------------------
(* Properties *)

Finished == pc = "done"
ReturnedOk == Finished /\ outcome.kind = "return" /\ outcome.value.status = "ok"

\* The geodesic distance between points i and j of the caller's frame.
Geodesic(i, j) ==
    haversine(Row(coords_df, i).lat, Row(coords_df, i).lon,
              Row(coords_df, j).lat, Row(coords_df, j).lon)

\* The provider's answer for the MST edge between points i and j.
AnswerFor(i, j) == net.route[<<Row(viz.coords, i).osm_node, Row(viz.coords, j).osm_node>>]

ValidPath(a) == a.status = "path" /\ Len(a.segs) >= 1 /\ a.measure = "ok"

\* C1: a call whose feature set was loaded and is empty returns status 'ok' with
\* nodes_count = 0, edges_count = 0 and total_distance = 0.
C1_EmptyInputIsOk ==
    (Finished /\ KnownMode(mode) /\ net.features = "ok" /\ Len(osm) = 0) =>
        /\ outcome.kind = "return"
        /\ outcome.value.status = "ok"
        /\ {"nodes_count", "edges_count", "total_distance"} \subseteq DOMAIN outcome.value
        /\ outcome.value.nodes_count = 0
        /\ outcome.value.edges_count = 0
        /\ outcome.value.total_distance = 0

\* C2: in a returned result, an edge for which the network found no path has
\* its geodesic weight and status 'fallback'; an edge for which it returned
\* a valid path has the summed segment lengths as weight and status
\* 'refined'.
C2_RefinedOrFallback ==
    ReturnedOk =>
        \A i \in 1..Len(outcome.value.edges) :
            LET e == outcome.value.edges[i]
                a == AnswerFor(e.from_index, e.to_index)
            IN  /\ a.status = "none" =>
                      /\ e.distance = Geodesic(e.from_index, e.to_index)
                      /\ "status" \in DOMAIN e
                      /\ e.status = "fallback"
                /\ ValidPath(a) =>
                      /\ e.distance = SumSeq(a.segs)
                      /\ "status" \in DOMAIN e
                      /\ e.status = "refined"

\* C3: once the road network is loaded, no routing failure (snapping,
\* querying or measuring a path) raises to the caller: the call returns,
\* every MST edge was processed, and an edge whose routing failed has its
\* geodesic distance.
C3_RoutingFailureNeverRaises ==
    (Finished /\ net.load = "ok") =>
        /\ outcome.kind = "return"
        /\ viz.k = Len(EdgesView(mst))
        /\ \A i \in 1..Len(outcome.value.edges) :
              LET e == outcome.value.edges[i]
              IN  ~ValidPath(AnswerFor(e.from_index, e.to_index)) =>
                      e.distance = Geodesic(e.from_index, e.to_index)

\* C4: when loading the road network raises, the call still returns a
\* success result whose edges are the MST edges with their geodesic weights.
C4_ProviderOutageDegrades ==
    (Finished /\ net.load = "raise") =>
        /\ outcome.kind = "return"
        /\ outcome.value.status = "ok"
        /\ outcome.value.edges = ResultEdges(mst)

\* The set of nodes reachable from `from` along edges given as endpoint sets.
RECURSIVE ReachFrom(_, _)
ReachFrom(pairs, from) ==
    LET more == from \cup UNION {p \in pairs : p \cap from # {}}
    IN  IF more = from THEN from ELSE ReachFrom(pairs, more)

EndPoints(e) == {e.u, e.v}
PairSet(es) == {EndPoints(es[i]) : i \in 1..Len(es)}

ConnectsAll(nodes, es) ==
    \A n \in nodes : ReachFrom(PairSet(es), {n}) = nodes

\* No edge closes a cycle: its endpoints are not joined by the other edges.
Acyclic(es) ==
    \A i \in 1..Len(es) :
        /\ es[i].u # es[i].v
        /\ es[i].v \notin ReachFrom({EndPoints(es[j]) : j \in (1..Len(es)) \ {i}}, {es[i].u})

\* C5: for n >= 1 points, build_mst_graph returns a graph on the same nodes
\* with exactly n - 1 edges, each an edge of the input graph, that is
\* acyclic and connects all nodes.
C5_MstIsSpanningTree ==
    (pc = "mst" /\ Len(coords_df) >= 1) =>
        /\ mst.nodes = G.nodes
        /\ Len(mst.edges) = Len(coords_df) - 1
        /\ \A i \in 1..Len(mst.edges) :
              \E j \in 1..Len(G.edges) : mst.edges[i] = G.edges[j]
        /\ Acyclic(mst.edges)
        /\ ConnectsAll(NodeSet(G), mst.edges)

C5_FourPointTree ==
    /\ pc = "mst"
    /\ Len(coords_df) = 4
    /\ Len(G.edges) = 6
    /\ Len(mst.edges) = 3
    /\ \E i, j \in 1..6 : i # j /\ G.edges[i].weight = G.edges[j].weight

\* The sum of the weights of the edges of es whose positions are in S.
WeightOf(es, S) == SumSeq([i \in 1..Len(es) |-> IF i \in S THEN es[i].weight ELSE 0])

\* The spanning trees of g, as sets of positions in g.edges.
SpanningTrees(g) ==
    {S \in SUBSET (1..Len(g.edges)) :
        /\ Cardinality(S) = Len(g.nodes) - 1
        /\ \A n \in NodeSet(g) :
              ReachFrom({EndPoints(g.edges[i]) : i \in S}, {n}) = NodeSet(g)}

DistinctWeights(es) ==
    \A i, j \in 1..Len(es) : i # j => es[i].weight # es[j].weight

\* C6: no spanning tree of the input graph weighs less than the returned one;
\* for three points with distinct pairwise distances the heaviest edge is the
\* one dropped.
C6_MstIsMinimum ==
    (pc = "mst" /\ Len(coords_df) >= 1) =>
        /\ \A S \in SpanningTrees(G) :
              WeightOf(mst.edges, 1..Len(mst.edges)) <= WeightOf(G.edges, S)
        /\ (Len(coords_df) = 3 /\ DistinctWeights(G.edges)) =>
              \A i \in 1..3 :
                 (\A j \in 1..3 : G.edges[j].weight <= G.edges[i].weight)
                    <=> (EndPoints(G.edges[i]) \notin PairSet(mst.edges))

C6_HeaviestFirstDropped ==
    /\ pc = "mst"
    /\ Len(coords_df) = 3
    /\ DistinctWeights(G.edges)
    /\ \A j \in 1..3 : G.edges[j].weight <= G.edges[1].weight
    /\ EndPoints(G.edges[1]) \notin PairSet(mst.edges)

\* C7: for n >= 2 points, build_geodesic_graph returns one node per point and
\* exactly n(n-1)/2 edges, one for each unordered pair of distinct points,
\* each weighing the geodesic distance of its endpoints in either order.
C7_CompleteGeodesicGraph ==
    (pc \in {"graph", "mst"} /\ Len(coords_df) >= 2) =>
        LET n == Len(coords_df)
        IN  /\ Len(G.nodes) = n
            /\ NodeSet(G) = 0..(n - 1)
            /\ 2 * Len(G.edges) = n * (n - 1)
            /\ \A i, j \in 0..(n - 1) :
                  i < j => Cardinality({k \in 1..Len(G.edges) :
                                           EndPoints(G.edges[k]) = {i, j}}) = 1
            /\ \A k \in 1..Len(G.edges) :
                  LET e == G.edges[k]
                  IN  /\ e.u # e.v
                      /\ {e.u, e.v} \subseteq 0..(n - 1)
                      /\ e.weight >= 0
                      /\ e.weight = Geodesic(e.u, e.v)
                      /\ e.weight = Geodesic(e.v, e.u)

C7_FourPointGraph ==
    /\ pc = "graph"
    /\ Len(coords_df) = 4
    /\ Len(G.edges) = 6
    /\ \E k \in 1..6 : G.edges[k].weight > 0
    /\ \E k \in 1..6 : G.edges[k].weight = 0

\* C8: in every success result nodes_count is the number of points,
\* edges_count the number of edges and total_distance the sum of the edges'
\* distance fields.
C8_CountsMatch ==
    ReturnedOk =>
        LET r == outcome.value
        IN  /\ r.nodes_count = Len(r.points)
            /\ r.edges_count = Len(r.edges)
            /\ r.total_distance =
                  SumSeq([i \in 1..Len(r.edges) |-> r.edges[i].distance])

C8_TwoEdgeResult ==
    /\ ReturnedOk
    /\ outcome.value.nodes_count = 3
    /\ outcome.value.edges_count = 2
    /\ outcome.value.edges[1].distance > 0
    /\ outcome.value.edges[2].distance > 0

StructureKept ==
    /\ NodeSet(mst') = NodeSet(mst)
    /\ PairSet(mst'.edges) = PairSet(mst.edges)
    /\ coords_df' = coords_df

\* C9: no step of visualize_mst_map changes the MST's node set, its set of
\* edge endpoint pairs, or the caller's point frame.
C9_RefinementKeepsStructure ==
    [][(pc \in {"mst", "viz_net", "viz_loop"}) => StructureKept]_vars

C9_RefinedAndFallbackDrawn ==
    /\ pc = "viz_done"
    /\ \E i \in 1..Len(viz.m) : viz.m[i].kind = "PolyLine" /\ viz.m[i].color = "blue"
    /\ \E i \in 1..Len(viz.m) : viz.m[i].kind = "PolyLine" /\ viz.m[i].color = "gray"

\* The position at which G.edges() reports the edge between two nodes.
PosInView(pair) ==
    CHOOSE k \in 1..Len(EdgesView(G)) : EndPoints(EdgesView(G)[k]) = pair

\* The weight of a spanning tree (a set of positions in G.edges) with ties
\* broken by the order of G.edges(): each edge counts its weight first and
\* its position second.
TieBrokenWeight(S) ==
    LET base == Len(G.edges) * Len(G.edges) + 1
    IN  SumSeq([i \in 1..Len(G.edges) |->
                  IF i \in S
                  THEN G.edges[i].weight * base + PosInView(EndPoints(G.edges[i]))
                  ELSE 0])

MinimumTrees ==
    {S \in SpanningTrees(G) :
        \A S2 \in SpanningTrees(G) : WeightOf(G.edges, S) <= WeightOf(G.edges, S2)}

\* The positions in G.edges of the edges a result reports.
Reported(es) ==
    {i \in 1..Len(G.edges) :
        \E k \in 1..Len(es) :
            EndPoints(G.edges[i]) = {es[k].from_index, es[k].to_index}}

\* Entry a of a result's edges comes before entry b: smaller from_index,
\* then smaller distance, then smaller to_index.
ComesBefore(a, b) ==
    \/ a.from_index < b.from_index
    \/ /\ a.from_index = b.from_index
       /\ \/ a.distance < b.distance
          \/ a.distance = b.distance /\ a.to_index < b.to_index

\* C10: the result is fixed by the facility records alone, so that two calls
\* on the same records and the same network answers end identically.  Of
\* the spanning trees of the geodesic graph the one returned is the single
\* lightest one when ties in weight are broken by edge order; its edges are
\* listed by from_index, then distance, then to_index, each with its
\* geodesic distance whatever the network answered; and a second call ends
\* as the first did, with the same result and the same map.
C10_SecondRunIdentical ==
    /\ ReturnedOk =>
          LET es == outcome.value.edges
          IN  /\ Reported(es) \in SpanningTrees(G)
              /\ \A S \in SpanningTrees(G) :
                    S # Reported(es) =>
                        TieBrokenWeight(Reported(es)) < TieBrokenWeight(S)
              /\ \A a, b \in 1..Len(es) : a < b => ComesBefore(es[a], es[b])
              /\ \A k \in 1..Len(es) :
                    es[k].distance = Geodesic(es[k].from_index, es[k].to_index)
    /\ (run = 2 /\ Finished) =>
          /\ outcome = first.outcome
          /\ viz.m = first.m

\* A second call has returned on records whose geodesic graph has more than
\* one spanning tree of least weight, two of its edges tying at a weight
\* above zero.
C10_SecondRunWithTies ==
    /\ run = 2
    /\ ReturnedOk
    /\ Len(outcome.value.edges) = 2
    /\ Cardinality(MinimumTrees) > 1
    /\ \E i, j \in 1..Len(G.edges) :
          i # j /\ G.edges[i].weight = G.edges[j].weight /\ G.edges[i].weight > 0

----------------------------------------------------------------------------
(* extract_coordinates on its own *)

InitExtract ==
    /\ run = 1
    /\ pc = "loaded"
    /\ mode = ModeAuto
    /\ osm = <<>>
    /\ gdf \in SeqsUpTo(ExtractSamples, MaxRecords)
    /\ coords_df = <<>>
    /\ G = EmptyGraph
    /\ mst = EmptyGraph
    /\ viz = NoViz
    /\ net = NoNet
    /\ outcome = Pending
    /\ first = [outcome |-> Pending, m |-> <<>>]

NextExtract == Extract

SpecExtract == InitExtract /\ [][NextExtract]_vars

\* The centroids of the sample polygons, worked out by hand: the centre of
\* a rectangle, the mean of the vertices of a triangle, and for the two
\* rectangles of Multi2 (areas 100 and 40, centres x = 3025 and x = 3052)
\* the area-weighted mean 3032.71 of the centres.
ExpectedCentroid(name) ==
    CASE name = "Poly1" -> <<3005, 5905>>
      [] name = "Poly2" -> <<3025, 5925>>
      [] name = "Tri1" -> <<3042, 5942>>
      [] name = "Multi2" -> <<3033, 5925>>

\* C11: extract_coordinates returns one located point per record, in input
\* order: point i has the coordinates of record i (its own for a point, the
\* centroid for a polygon or multi-polygon) and its attributes.
C11_OnePointPerRecord ==
    pc = "extracted" =>
        /\ Len(coords_df) = Len(gdf)
        /\ \A i \in 1..Len(gdf) :
              LET geom == gdf[i].geometry
                  pt == coords_df[i]
              IN  /\ pt.tags.name = gdf[i].name
                  /\ pt.tags.building = gdf[i].building
                  /\ geom.geom_type = "Point" =>
                        /\ pt.lon = geom.parts[1][1][1]
                        /\ pt.lat = geom.parts[1][1][2]
                  /\ geom.geom_type \in {"Polygon", "MultiPolygon"} =>
                        <<pt.lon, pt.lat>> = ExpectedCentroid(gdf[i].name.s)

C11_MixedRecordsExtracted ==
    /\ pc = "extracted"
    /\ Len(gdf) = 3
    /\ gdf[1].name = Val("Tri1")
    /\ gdf[2].geometry.geom_type = "Point"
    /\ gdf[3].name = Val("Multi2")
    /\ Len(coords_df) = 3

\* C12: no located point with a non-finite latitude or longitude appears in
\* the output of extract_coordinates or in the points of a returned result.
C12_NoNonFinitePoint ==
    /\ pc = "extracted" =>
          \A i \in 1..Len(coords_df) :
              coords_df[i].lat # NaN /\ coords_df[i].lon # NaN
    /\ ReturnedOk =>
          \A i \in 1..Len(outcome.value.points) :
              outcome.value.points[i].lat # NaN /\ outcome.value.points[i].lon # NaN

----------------------------------------------------------------------------
(* Order of the stages of one call *)

\* The position of a call: after load (1), extract_coordinates (2),
\* build_geodesic_graph (3), build_mst_graph (4), inside visualize_mst_map
\* (5, 6), after it (7), after the result is assembled (8).
Rank(p) ==
    CASE p = "start" -> 0
      [] p = "loaded" -> 1
      [] p = "extracted" -> 2
      [] p = "graph" -> 3
      [] p = "mst" -> 4
      [] p = "viz_net" -> 5
      [] p = "viz_loop" -> 6
      [] p = "viz_done" -> 7
      [] p = "done" -> 8

NewCall == pc = "done" /\ pc' = "start" /\ run' = run + 1

StageOrderStep ==
    /\ pc' # pc =>
          \/ NewCall
          \/ Rank(pc') = Rank(pc) + 1
          \/ pc' = "done" /\ outcome'.kind = "raise"
          \/ pc = "start" /\ pc' = "done" /\ outcome'.value.status = "no_data"
    /\ coords_df' # coords_df => (pc = "loaded" /\ pc' = "extracted") \/ NewCall
    /\ G' # G => (pc = "extracted" /\ pc' = "graph") \/ NewCall
    /\ mst' # mst => (pc = "graph" /\ pc' = "mst") \/ NewCall
    /\ viz' # viz => pc \in {"mst", "viz_net", "viz_loop"} \/ NewCall
    /\ (outcome' # outcome /\ outcome'.kind = "return"
            /\ outcome'.value.status = "ok") =>
          pc = "viz_done" /\ pc' = "done"

\* C13: within a call the stages run in the order extract_coordinates,
\* build_geodesic_graph, build_mst_graph, visualize_mst_map, assembly: the
\* call only moves to the next position (or ends with an exception), each
\* stage writes its output only at its own position, and the result is
\* returned only after visualize_mst_map has finished.
C13_StagesInOrder == [][StageOrderStep]_vars

C13_AllStagesRan ==
    /\ run = 1
    /\ ReturnedOk
    /\ Len(coords_df) = 3
    /\ Len(G.edges) = 3
    /\ Len(mst.edges) = 2
    /\ viz.k = 2

----------------------------------------------------------------------------
(* get_default_tags on its own, and as the first step of the pipeline *)

UpperChar(c) ==
    IF \E i \in 1..Len(Letters) : Letters[i] = c
    THEN Capitals[CHOOSE i \in 1..Len(Letters) : Letters[i] = c]
    ELSE c

\* A word in every mix of lower and upper case.
CaseVariants(w) ==
    {[i \in 1..Len(w) |-> IF i \in S THEN UpperChar(w[i]) ELSE w[i]] :
        S \in SUBSET (1..Len(w))}

ValidWords == {ModeAuto, ModeAero, ModeSea, ModeRail}

\* The modes get_default_tags is checked on: the four modes in every case
\* mix, and strings that are none of them.
TagModes ==
    UNION {CaseVariants(w) : w \in ValidWords}
    \cup {ModeUnknown, <<>>, <<"C", "A", "R">>, <<"a", "u", "t">>,
          <<"a", "u", "t", "o", "s">>, <<"a", "u", "t", "o", " ">>}

InitTags ==
    /\ run = 1
    /\ pc = "start"
    /\ mode \in TagModes
    /\ osm \in SeqsUpTo(Facilities, 1)
    /\ gdf = <<>>
    /\ coords_df = <<>>
    /\ G = EmptyGraph
    /\ mst = EmptyGraph
    /\ viz = NoViz
    /\ net = NoNet
    /\ outcome = Pending
    /\ first = [outcome |-> Pending, m |-> <<>>]

\* A direct call of get_default_tags(mode).
GetDefaultTags ==
    /\ pc = "start"
    /\ outcome' = get_default_tags(mode)
    /\ pc' = "tags_done"
    /\ UNCHANGED <<run, mode, osm, gdf, coords_df, G, mst, viz, net, first>>

NextTags ==
    \/ GetDefaultTags
    \/ Load

SpecTags == InitTags /\ [][NextTags]_vars

SameIgnoringCase(m, w) ==
    /\ Len(m) = Len(w)
    /\ \A i \in 1..Len(w) : m[i] = w[i] \/ m[i] = UpperChar(w[i])

\* The tag filters test_get_default_tags expects.
ExpectedTags(w) ==
    CASE w = ModeAuto -> [building |-> <<"warehouse", "depot", "industrial">>]
      [] w = ModeAero -> [aeroway |-> <<"terminal", "hangar", "cargo">>]
      [] w = ModeSea -> [harbour |-> TRUE, man_made |-> <<"pier", "dock">>]
      [] w = ModeRail -> [railway |-> <<"station", "yard", "cargo_terminal">>]

\* C14: get_default_tags returns the fixed tag filter of 'auto', 'aero',
\* 'sea' or 'rail' whatever the case of the letters, and raises ValueError
\* for every other string; generate_logistics_mst called with such a string
\* raises ValueError and returns nothing, and does not raise it otherwise.
C14_TagsByMode ==
    LET named == {w \in ValidWords : SameIgnoringCase(mode, w)}
    IN  /\ pc = "tags_done" =>
              IF named # {}
              THEN \A w \in named : outcome = Returned(ExpectedTags(w))
              ELSE outcome = Raised("ValueError")
        /\ pc \in {"loaded", "done"} =>
              IF named # {}
              THEN outcome # Raised("ValueError")
              ELSE outcome = Raised("ValueError") /\ pc = "done"

C14_UpperCaseAccepted ==
    /\ pc = "tags_done"
    /\ mode = <<"A", "U", "T", "O">>
    /\ outcome = Returned(ExpectedTags(ModeAuto))

----------------------------------------------------------------------------
(* The distance drawn for each MST edge *)

\* The number of items on the map once the first j MST edges are drawn: the
\* point markers (which come first), then a line with two labels (road distance) or a line
\* with one label (geodesic distance) per edge.
RECURSIVE DrawnUpTo(_)
DrawnUpTo(j) ==
    IF j = 0
    THEN Cardinality({i \in 1..Len(viz.m) : viz.m[i].kind = "CircleMarker"})
    ELSE LET before == DrawnUpTo(j - 1)
         IN  before + (IF viz.m[before + 1].color = "blue" THEN 3 ELSE 2)

MstEdge(j) == EdgesView(mst)[j]
LineOf(j) == viz.m[DrawnUpTo(j - 1) + 1]
LabelOf(j) == viz.m[DrawnUpTo(j - 1) + 2]

RoadDistanceUsed(j) ==
    /\ LineOf(j).kind = "PolyLine" /\ LineOf(j).color = "blue"
    /\ LabelOf(j).kind = "Marker"
    /\ LabelOf(j).dist = SumSeq(AnswerFor(MstEdge(j).u, MstEdge(j).v).segs)

GeodesicDistanceUsed(j) ==
    /\ LineOf(j).kind = "PolyLine" /\ LineOf(j).color = "gray"
    /\ LabelOf(j).kind = "Marker"
    /\ LabelOf(j).dist = Geodesic(MstEdge(j).u, MstEdge(j).v)

\* The number of nodes of the route the query returned.
RouteNodes(a) == Len(a.segs) + 1

\* C15: an MST edge is drawn with the road distance (the sum of the path's
\* segment lengths) exactly when the shortest-path query returned a path of
\* at least two nodes; when the query returned no path, returned a path of
\* fewer than two nodes or raised, the edge is drawn with the haversine
\* distance between its two points, and the call does not raise for it.
C15_RoadDistanceIffRoute ==
    /\ pc \in {"viz_loop", "viz_done", "done"} /\ viz.coords # <<>> =>
          /\ Len(viz.m) = DrawnUpTo(viz.k)
          /\ \A j \in 1..viz.k :
                LET a == AnswerFor(MstEdge(j).u, MstEdge(j).v)
                IN  /\ RoadDistanceUsed(j) <=> (a.status = "path" /\ RouteNodes(a) >= 2)
                    /\ (\/ a.status \in {"none", "raise"}
                        \/ a.status = "path" /\ RouteNodes(a) < 2)
                          => GeodesicDistanceUsed(j)
    /\ (Finished /\ outcome.kind = "raise" /\ viz.coords # <<>>) =>
          /\ viz.k < Len(EdgesView(mst))
          /\ LET a == AnswerFor(MstEdge(viz.k + 1).u, MstEdge(viz.k + 1).v)
             IN  a.status = "path" /\ RouteNodes(a) >= 2

C15_EveryQueryOutcomeDrawn ==
    /\ pc = "viz_done"
    /\ viz.k = 2
    /\ \E j, k \in 1..viz.k :
          /\ AnswerFor(MstEdge(j).u, MstEdge(j).v).status = "path"
          /\ RouteNodes(AnswerFor(MstEdge(j).u, MstEdge(j).v)) = 1
          /\ GeodesicDistanceUsed(j)
          /\ RouteNodes(AnswerFor(MstEdge(k).u, MstEdge(k).v)) = 1 + MaxSegs
          /\ RoadDistanceUsed(k)

----------------------------------------------------------------------------
(* Well-formed edges *)

\* The edges of a graph and of a result as <<first, second, distance>>.
GraphTriples(g) ==
    [i \in 1..Len(EdgesView(g)) |->
        <<EdgesView(g)[i].u, EdgesView(g)[i].v, EdgesView(g)[i].weight>>]

ResultTriples(es) ==
    [i \in 1..Len(es) |-> <<es[i].from_index, es[i].to_index, es[i].distance>>]

WellFormedEdges(ts, n) ==
    /\ \A i \in 1..Len(ts) :
          /\ ts[i][1] # ts[i][2]
          /\ ts[i][1] \in 0..(n - 1)
          /\ ts[i][2] \in 0..(n - 1)
          /\ ts[i][1] < ts[i][2]
          /\ ts[i][3] >= 0
    /\ \A i, j \in 1..Len(ts) :
          i # j => {ts[i][1], ts[i][2]} # {ts[j][1], ts[j][2]}

\* C16: every edge of the graph build_geodesic_graph returned, of the tree
\* build_mst_graph returned and of the result of generate_logistics_mst
\* joins two distinct indices i, j with 0 <= i, j < number of points, is
\* reported with the smaller index first, occurs once as an unordered pair
\* and has a distance >= 0.
C16_EdgesWellFormed ==
    /\ WellFormedEdges(GraphTriples(G), Len(coords_df))
    /\ WellFormedEdges(GraphTriples(mst), Len(coords_df))
    /\ ReturnedOk =>
          /\ Len(outcome.value.points) = outcome.value.nodes_count
          /\ WellFormedEdges(ResultTriples(outcome.value.edges),
                             outcome.value.nodes_count)

C16_ThreePointResult ==
    /\ ReturnedOk
    /\ outcome.value.nodes_count = 3
    /\ Len(EdgesView(G)) = 3
    /\ \E i \in 1..Len(outcome.value.edges) :
          /\ outcome.value.edges[i].from_index = 1
          /\ outcome.value.edges[i].to_index = 2

====
